---- MODULE Spec2Model ----
(***************************************************************************)
(* Model of the PSDataImprovement browser extension: the popup upload      *)
(* handlers (scripts/popup.js) and the ContentScript base class that is    *)
(* re-run on every page load.  Texts are sequences of one-character        *)
(* strings so that trim, search, split and replace are computed character  *)
(* by character as the JavaScript does.                                    *)
(***************************************************************************)
EXTENDS Integers, Sequences, FiniteSets, TLC

(***************************************************************************)
(* Bounds                                                                  *)
(***************************************************************************)
MaxUploads == 2
MaxNavs == 1

(***************************************************************************)
(* JavaScript values and string primitives                                 *)
(***************************************************************************)
\* null (an absent key) and undefined (an array slot that does not exist);
\* neither is a text, because every element of a text is one character
Null == <<"null">>
Undefined == <<"undefined">>
EmptyText == <<>>

\* the line separator the scripts split and search on
NEWLINE == "\n"

\* the characters String.prototype.trim strips
Whitespace == {" ", "\n"}

Bool(b) == IF b THEN <<"true">> ELSE <<"false">>

RECURSIVE trimStart(_)
trimStart(s) ==
    IF s # <<>> /\ Head(s) \in Whitespace THEN trimStart(Tail(s)) ELSE s

RECURSIVE trimEnd(_)
trimEnd(s) ==
    IF s # <<>> /\ s[Len(s)] \in Whitespace
    THEN trimEnd(SubSeq(s, 1, Len(s) - 1))
    ELSE s

\* String.prototype.trim
trim(s) == trimEnd(trimStart(s))

\* String.prototype.search / indexOf for a one-character pattern:
\* 0-based index of the first match, -1 if there is none
search(s, c) ==
    IF \E i \in 1..Len(s) : s[i] = c
    THEN (CHOOSE i \in 1..Len(s) : s[i] = c /\ \A j \in 1..(i - 1) : s[j] # c) - 1
    ELSE -1

\* String.prototype.substring(start) with a 0-based start
substring(s, start) == SubSeq(s, start + 1, Len(s))

\* String.prototype.split for a one-character separator ("" splits to [""])
RECURSIVE split(_, _)
split(s, c) ==
    LET i == search(s, c)
    IN  IF i = -1
        THEN <<s>>
        ELSE <<SubSeq(s, 1, i)>> \o split(substring(s, i + 1), c)

\* Array.prototype.join
RECURSIVE join(_, _)
join(arr, sep) ==
    IF arr = <<>> THEN <<>>
    ELSE IF Len(arr) = 1 THEN arr[1]
    ELSE arr[1] \o sep \o join(Tail(arr), sep)

\* Array.prototype.indexOf: 0-based index of the first equal element, or -1
indexOf(arr, x) ==
    IF \E i \in 1..Len(arr) : arr[i] = x
    THEN (CHOOSE i \in 1..Len(arr) : arr[i] = x /\ \A j \in 1..(i - 1) : arr[j] # x) - 1
    ELSE -1

\* arr[i] with a 0-based index: undefined outside the array
at(arr, i) == IF i >= 0 /\ i < Len(arr) THEN arr[i + 1] ELSE Undefined

\* String.prototype.replace('"', ''): removes the first quote mark only
replaceQuote(s) ==
    LET i == search(s, "\"")
    IN  IF i = -1 THEN s ELSE SubSeq(s, 1, i) \o substring(s, i + 1)

\* while(x.indexOf('"') !== -1){ x = x.replace('"', ''); }
RECURSIVE stripQuotes(_)
stripQuotes(s) ==
    IF search(s, "\"") # -1 THEN stripQuotes(replaceQuote(s)) ELSE s

(***************************************************************************)
(* The persisted key-value store (get / set / del)                         *)
(***************************************************************************)
Sources == {"acct", "req", "po", "poInfo"}

\* the key each source's queue is persisted under, and its content script reads
queryFileName ==
    [acct |-> "acctFile", req |-> "reqFile", po |-> "poFile", poInfo |-> "poInfoFile"]

\* the key each source's result accumulator is persisted under
resultFileName ==
    [acct |-> "acctResult", req |-> "reqResult", po |-> "poResult", poInfo |-> "poInfoResult"]

Keys == {queryFileName[s] : s \in Sources} \cup {resultFileName[s] : s \in Sources}
            \cup {"autoclick"}

\* a handler in progress: the store as it has written it so far, the effects
\* it has had in program order, and whether it has thrown
Enter(st) == [store |-> st, log |-> <<>>, threw |-> FALSE]

get(h, k) == h.store[k]

set(h, k, v) ==
    [h EXCEPT !.store = [h.store EXCEPT ![k] = v], !.log = Append(h.log, <<"set", k>>)]

del(h, k) ==
    [h EXCEPT !.store = [h.store EXCEPT ![k] = Null], !.log = Append(h.log, <<"del", k>>)]

\* an effect other than a store write: setUrl, processQuery, postProcessResult,
\* the download
Effect(h, e) == [h EXCEPT !.log = Append(h.log, <<e>>)]

\* an uncaught exception: the rest of the handler does not run
Throw(h) == [h EXCEPT !.threw = TRUE]

(***************************************************************************)
(* popup.js: the upload handlers                                           *)
(***************************************************************************)
\* text.substring(text.search(NEWLINE) + 1).trim()
removeHeader(text) == trim(substring(text, search(text, NEWLINE) + 1))

\* reader.onload of linkButton (acct, req)
linkButton(h, sourceFileName, resultFile, text, checked) ==
    LET newText == removeHeader(text)
        h1 == set(h, sourceFileName, newText)
        h2 == set(h1, resultFile, EmptyText)
        h3 == set(h2, "autoclick", Bool(checked))
    IN  Effect(h3, "setUrl")

ReqIdHeader == <<"\"", "R", "e", "q", " ", "I", "D", "\"">>
PoIdHeader == <<"\"", "P", "O", " ", "I", "D", "\"">>
AwaitingDispatch ==
    <<"P", "O", " ", "i", "s", " ", "a", "w", "a", "i", "t", "i", "n", "g", " ",
      "d", "i", "s", "p", "a", "t", "c", "h">>

\* text.split(NEWLINE).map((line)=>line.split(","))
splitCells(text) ==
    LET lines == split(text, NEWLINE)
    IN  [i \in 1..Len(lines) |-> split(lines[i], ",")]

\* the filter predicate of the po handlers (it throws on an undefined cell)
keepLine(line, poIdCol) ==
    /\ at(line, poIdCol) # AwaitingDispatch
    /\ trim(at(line, poIdCol)) # EmptyText

\* newText += "\n" + reqId + "," + poId  for every line
RECURSIVE projectLines(_, _, _)
projectLines(lines, reqIdCol, poIdCol) ==
    IF lines = <<>> THEN <<>>
    ELSE LET reqId == stripQuotes(trim(at(Head(lines), reqIdCol)))
             poId == stripQuotes(trim(at(Head(lines), poIdCol)))
         IN  <<"\n">> \o reqId \o <<",">> \o poId
                \o projectLines(Tail(lines), reqIdCol, poIdCol)

\* the re-projection of the po and poInfo handlers: the text they persist, or
\* a TypeError when a cell they call trim on does not exist
poProject(text) ==
    LET data == splitCells(text)
        reqIdCol == indexOf(data[1], ReqIdHeader)
        poIdCol == indexOf(data[1], PoIdHeader)
        rows == Tail(data)
        filterThrows == \E i \in 1..Len(rows) : at(rows[i], poIdCol) = Undefined
        kept == SelectSeq(rows, LAMBDA line : keepLine(line, poIdCol))
        forEachThrows == \E i \in 1..Len(kept) : at(kept[i], reqIdCol) = Undefined
    IN  IF filterThrows \/ forEachThrows
        THEN [threw |-> TRUE, newText |-> EmptyText]
        ELSE [threw |-> FALSE, newText |-> projectLines(kept, reqIdCol, poIdCol)]

\* reader.onload of the #poSubmit click handler
poSubmit(h, text, checked) ==
    LET p == poProject(text)
        h1 == set(h, "poFile", p.newText)
        h2 == set(h1, "poResult", EmptyText)
        h3 == set(h2, "autoclick", Bool(checked))
    IN  IF p.threw THEN Throw(h) ELSE Effect(h3, "setUrl")

\* reader.onload of the #poInfoSubmit click handler
poInfoSubmit(h, text, checked) ==
    LET p == poProject(text)
        h1 == set(h, "poInfoFile", p.newText)
        h2 == set(h1, "poInfoResult", EmptyText)
        h3 == set(h2, "autoclick", Bool(checked))
    IN  IF p.threw THEN Throw(h) ELSE Effect(h3, "setUrl")

(***************************************************************************)
(* ContentScript: the handlers run on a page load.  The unqualified calls  *)
(* (inputData(), checkIfDone(), ...) are the methods of the same name.     *)
(***************************************************************************)
\* downloadResult: reads the accumulator and offers it as result.csv
downloadResult(h, s) ==
    [Effect(h, "download") EXCEPT !.downloads = Append(h.downloads, get(h, resultFileName[s]))]

\* clean: deletes the three persisted keys
clean(h, s) ==
    LET h1 == del(h, queryFileName[s])
        h2 == del(h1, resultFileName[s])
    IN  del(h2, "autoclick")

\* checkIfDone with clean and downloadResult in the wrong order
checkIfDone_cleansFirst(h, s) ==
    LET remainingQ == get(h, queryFileName[s])
    IN  IF remainingQ = Null
        THEN [h EXCEPT !.done = TRUE]
        ELSE IF trim(remainingQ) = EmptyText
        THEN [downloadResult(clean(h, s), s) EXCEPT !.done = TRUE]
        ELSE h

\* checkIfDone offering the download without deleting the keys
checkIfDone_noClean(h, s) ==
    LET remainingQ == get(h, queryFileName[s])
    IN  IF remainingQ = Null
        THEN [h EXCEPT !.done = TRUE]
        ELSE IF trim(remainingQ) = EmptyText
        THEN [downloadResult(h, s) EXCEPT !.done = TRUE]
        ELSE h

\* checkIfDone: done is TRUE when the key is absent or the queue is blank
checkIfDone(h, s) ==
    LET remainingQ == get(h, queryFileName[s])
    IN  IF remainingQ = Null
        THEN [h EXCEPT !.done = TRUE]
        ELSE IF trim(remainingQ) = EmptyText
        THEN [clean(downloadResult(h, s), s) EXCEPT !.done = TRUE]
        ELSE h

\* inputData shifting the array twice
inputData_shiftsTwice(h, s) ==
    LET remainingQueries == get(h, queryFileName[s])
        qArray == split(remainingQueries, NEWLINE)
        currQ == split(Head(qArray), ",")
        shifted == Tail(qArray)
        rest == trim(join(IF shifted = <<>> THEN shifted ELSE Tail(shifted), <<"\n">>))
        h1 == set(h, queryFileName[s], rest)
    IN  IF remainingQueries = Null \/ trim(remainingQueries) = EmptyText
        THEN Throw(h)
        ELSE [Effect(h1, "processQuery") EXCEPT !.queries = Append(h.queries, currQ)]

\* inputData handing the row to processQuery before it writes the queue back
inputData_queryFirst(h, s) ==
    LET remainingQueries == get(h, queryFileName[s])
        qArray == split(remainingQueries, NEWLINE)
        currQ == split(Head(qArray), ",")
        rest == trim(join(Tail(qArray), <<"\n">>))
        h1 == [Effect(h, "processQuery") EXCEPT !.queries = Append(h.queries, currQ)]
    IN  IF remainingQueries = Null \/ trim(remainingQueries) = EmptyText
        THEN Throw(h)
        ELSE set(h1, queryFileName[s], rest)

\* inputData throwing only when the query key is absent, not on a blank queue
inputData_checksNullOnly(h, s) ==
    LET remainingQueries == get(h, queryFileName[s])
        qArray == split(remainingQueries, NEWLINE)
        currQ == split(Head(qArray), ",")
        rest == trim(join(Tail(qArray), <<"\n">>))
        h1 == set(h, queryFileName[s], rest)
    IN  IF remainingQueries = Null
        THEN Throw(h)
        ELSE [Effect(h1, "processQuery") EXCEPT !.queries = Append(h.queries, currQ)]

\* inputData: pops the first row of the queue and hands it to processQuery
inputData(h, s) ==
    LET remainingQueries == get(h, queryFileName[s])
        qArray == split(remainingQueries, NEWLINE)
        currQ == split(Head(qArray), ",")
        rest == trim(join(Tail(qArray), <<"\n">>))
        h1 == set(h, queryFileName[s], rest)
    IN  IF remainingQueries = Null \/ trim(remainingQueries) = EmptyText
        THEN Throw(h)
        ELSE [Effect(h1, "processQuery") EXCEPT !.queries = Append(h.queries, currQ)]

\* readResult: appends what processResult() returned (newPage) to the
\* accumulator, then checkIfDone and postProcessResult
readResult(h, s, newPage) ==
    LET prevResult == get(h, resultFileName[s])
        newText == IF trim(prevResult) # EmptyText
                   THEN <<"\n">> \o trim(substring(newPage, search(newPage, NEWLINE) + 1))
                   ELSE newPage
        h1 == set(h, resultFileName[s], prevResult \o newText)
        h2 == checkIfDone(h1, s)
    IN  IF prevResult = Null
        THEN Throw(h)
        ELSE Effect(h2, "postProcessResult")

\* checkURL treating every page that is not the result page as the input page
checkURL_defaultsToInput(h, s, page, newPage) ==
    IF page = "result" THEN readResult(h, s, newPage) ELSE inputData(h, s)

\* checkURL: dispatches on the pathname of the page
checkURL(h, s, page, newPage) ==
    IF page = "input" THEN inputData(h, s)
    ELSE IF page = "result" THEN readResult(h, s, newPage)
    ELSE Throw(h)

\* the load callback registered by run
run(h, s, page, newPage) ==
    LET order == get(h, queryFileName[s])
    IN  IF order = Null THEN h ELSE checkURL(h, s, page, newPage)

\* new ContentScriptSubclass().run(): the constructor throws when the query
\* key is absent, otherwise the load callback runs
script(h, s, page, newPage) ==
    LET data == get(h, queryFileName[s])
    IN  IF data = Null
        THEN Throw(h)
        ELSE run([h EXCEPT !.autoclick = get(h, "autoclick")], s, page, newPage)

\* a content-script handler in progress also carries what it handed to
\* processQuery, what it downloaded and what checkIfDone returned
EnterScript(st) ==
    [store |-> st, log |-> <<>>, threw |-> FALSE,
     queries |-> <<>>, downloads |-> <<>>, done |-> FALSE, autoclick |-> Null]

(***************************************************************************)
(* Inputs: the files a user uploads and the texts processResult() returns  *)
(***************************************************************************)
Line(a, b) == a \o <<",">> \o b
Quoted(t) == <<"\"">> \o t \o <<"\"">>
NL == <<"\n">>

\* files for the acct and req buttons: header line h
AllLinkFiles ==
    { <<"h">>,
      <<"h", "\n">>,
      <<"h", "\n", "a">>,
      <<"h", "\n", "a", ",", "b", "\n", "c", "\n">>,
      <<"h", "\n", "a", "\n", "\n", "b">> }

\* the acct and req files uploaded in the runs of the full life cycle
RunLinkFiles ==
    [acct |-> { <<"h", "\n">>,
                <<"h", "\n", "a", ",", "b", "\n", "\n", "c", "\n">> },
     req |-> { <<"h", "\n">> }]

PoHeader == Line(ReqIdHeader, PoIdHeader)

\* files for the po and poInfo buttons
AllPoFiles ==
    { PoHeader,
      PoHeader \o NL \o Line(Quoted(<<"R", "1">>), Quoted(AwaitingDispatch)),
      PoHeader \o NL \o Line(Quoted(<<"R", "2">>), Quoted(<<"P", "2", "0", "0">>)),
      PoHeader \o NL \o Line(Quoted(<<"R", "2">>), Quoted(<<"P", "2", "0", "0">>)) \o NL,
      PoHeader \o NL \o Line(Quoted(<<"R", "3">>), <<" ">>)
               \o NL \o Line(Quoted(<<"R", "4">>), Quoted(<<"P", "4">>)),
      PoHeader \o NL \o Line(<<"R", "5">>, AwaitingDispatch) }

\* the po and poInfo files uploaded in the runs of the full life cycle
RunPoFiles ==
    [po |-> { PoHeader \o NL \o Line(Quoted(<<"R", "2">>), Quoted(<<"P", "2", "0", "0">>)),
              PoHeader \o NL \o Line(Quoted(<<"R", "2">>), Quoted(<<"P", "2", "0", "0">>)) \o NL },
     poInfo |-> { PoHeader }]

UploadLinkFiles == [acct |-> AllLinkFiles, req |-> AllLinkFiles]
UploadPoFiles == [po |-> AllPoFiles, poInfo |-> AllPoFiles]

\* texts processResult() may return: header line H, data rows x and y
PageResults ==
    { <<"H">>,
      <<"H", "\n", "x", "\n">> }

Pages == {"input", "result", "other"}

(***************************************************************************)
(* State                                                                   *)
(***************************************************************************)
VARIABLES
    store,      \* the persisted key-value store: key -> text, flag or Null
    tab,        \* the browser tab: whose page it shows and what is pending
    last,       \* the handler that ran last: its name, effects and outcome
    uploads,    \* number of uploads so far
    navs,       \* number of navigations made by the user so far
    file,       \* per source: the file of the last upload that persisted
    queries,    \* per source: the arrays handed to processQuery since then
    pages,      \* per source: the texts processResult() returned since then
    downloads   \* per source: the texts offered for download since then

vars == <<store, tab, last, uploads, navs, file, queries, pages, downloads>>

Init ==
    /\ store = [k \in Keys |-> Null]
    /\ tab = [src |-> "acct", page |-> "other", phase |-> "idle", autoclick |-> Null]
    /\ last = [handler |-> "none", src |-> "acct", threw |-> FALSE, log |-> <<>>]
    /\ uploads = 0
    /\ navs = 0
    /\ file = [s \in Sources |-> Null]
    /\ queries = [s \in Sources |-> <<>>]
    /\ pages = [s \in Sources |-> <<>>]
    /\ downloads = [s \in Sources |-> <<>>]

\* a page of source s starts loading: its content script will run afresh
Open(s, page) == [src |-> s, page |-> page, phase |-> "loading", autoclick |-> Null]

\* what an upload handler that ran as h leaves behind
Uploaded(s, text, h) ==
    /\ uploads < MaxUploads
    /\ uploads' = uploads + 1
    /\ last' = [handler |-> "upload", src |-> s, threw |-> h.threw, log |-> h.log]
    /\ navs' = navs
    /\ IF h.threw
       THEN UNCHANGED <<store, tab, file, queries, pages, downloads>>
       ELSE /\ store' = h.store
            /\ tab' = Open(s, "input")
            /\ file' = [file EXCEPT ![s] = text]
            /\ queries' = [queries EXCEPT ![s] = <<>>]
            /\ pages' = [pages EXCEPT ![s] = <<>>]
            /\ downloads' = [downloads EXCEPT ![s] = <<>>]

\* the user uploads a file with the acct or the req button
LinkButtonClick(files) ==
    \E s \in {"acct", "req"} : \E text \in files[s], checked \in BOOLEAN :
        Uploaded(s, text,
                 linkButton(Enter(store), queryFileName[s], resultFileName[s], text, checked))

\* the user uploads a file with the po button
PoSubmitClick(files) ==
    \E text \in files.po, checked \in BOOLEAN :
        Uploaded("po", text, poSubmit(Enter(store), text, checked))

\* the user uploads a file with the poInfo button
PoInfoSubmitClick(files) ==
    \E text \in files.poInfo, checked \in BOOLEAN :
        Uploaded("poInfo", text, poInfoSubmit(Enter(store), text, checked))

\* the name of the method the script ended in
Handler(st, s, page) ==
    IF st[queryFileName[s]] = Null THEN "constructor"
    ELSE IF page = "input" THEN "inputData"
    ELSE IF page = "result" THEN "readResult"
    ELSE "checkURL"

\* the page in the tab finishes loading: the content script of its site is
\* constructed and its load callback runs to completion
PageLoad ==
    /\ tab.phase = "loading"
    /\ \E newPage \in PageResults :
        LET s == tab.src
            h == script(EnterScript(store), s, tab.page, newPage)
            name == Handler(store, s, tab.page)
            scraped == name = "readResult" /\ ~h.threw
        IN  /\ store' = h.store
            /\ last' = [handler |-> name, src |-> s, threw |-> h.threw, log |-> h.log]
            /\ queries' = [queries EXCEPT ![s] = @ \o h.queries]
            /\ pages' = [pages EXCEPT ![s] = IF scraped THEN Append(@, newPage) ELSE @]
            /\ downloads' = [downloads EXCEPT ![s] = @ \o h.downloads]
            /\ tab' = [tab EXCEPT !.autoclick = h.autoclick,
                                  !.phase = IF h.threw THEN "idle"
                                            ELSE IF name = "inputData" THEN "filled"
                                            ELSE "scraped"]
    /\ UNCHANGED <<uploads, navs, file>>

\* the form that processQuery filled is submitted: the result page loads
SubmitForm ==
    /\ tab.phase = "filled"
    /\ tab' = Open(tab.src, "result")
    /\ last' = [handler |-> "submit", src |-> tab.src, threw |-> FALSE, log |-> <<>>]
    /\ UNCHANGED <<store, uploads, navs, file, queries, pages, downloads>>

\* postProcessResult clicked the back button of the result page, which it
\* does only if this.autoclick is true: the input page loads
ReturnToInput ==
    /\ tab.phase = "scraped"
    /\ tab.autoclick = Bool(TRUE)
    /\ tab' = Open(tab.src, "input")
    /\ last' = [handler |-> "back", src |-> tab.src, threw |-> FALSE, log |-> <<>>]
    /\ UNCHANGED <<store, uploads, navs, file, queries, pages, downloads>>

\* the user opens or reloads a page of one of the sites
Navigate ==
    /\ navs < MaxNavs
    /\ navs' = navs + 1
    /\ \E s \in Sources, page \in Pages : tab' = Open(s, page)
    /\ last' = [handler |-> "navigate", src |-> tab'.src, threw |-> FALSE, log |-> <<>>]
    /\ UNCHANGED <<store, uploads, file, queries, pages, downloads>>

Next ==
    \/ LinkButtonClick(RunLinkFiles)
    \/ PoSubmitClick(RunPoFiles)
    \/ PoInfoSubmitClick(RunPoFiles)
    \/ PageLoad
    \/ SubmitForm
    \/ ReturnToInput
    \/ Navigate

Spec == Init /\ [][Next]_vars

\* the upload handlers alone, over the larger sets of files
NextUpload ==
    \/ LinkButtonClick(UploadLinkFiles)
    \/ PoSubmitClick(UploadPoFiles)
    \/ PoInfoSubmitClick(UploadPoFiles)

SpecUpload == Init /\ [][NextUpload]_vars

(***************************************************************************)
(* Vocabulary of the properties                                            *)
(***************************************************************************)
\* the rows of a persisted text; the empty text has no row
Rows(t) == IF t = EmptyText THEN <<>> ELSE split(t, NEWLINE)

RowCount(t) == Len(Rows(t))

IsBlank(row) == trim(row) = EmptyText

NonBlankRows(t) == SelectSeq(Rows(t), LAMBDA row : ~IsBlank(row))

\* the lines of an uploaded file after its first line
DataLines(f) == Tail(split(f, NEWLINE))

HeaderLine(f) == Head(split(f, NEWLINE))

IsLinkSource(s) == s \in {"acct", "req"}

\* effect e is in the log / the position of its first occurrence
Did(log, e) == \E i \in 1..Len(log) : log[i] = e
Pos(log, e) == CHOOSE i \in 1..Len(log) : log[i] = e /\ \A j \in 1..(i - 1) : log[j] # e

\* the last handler was an upload of source s that persisted its file
JustUploaded(s) == last.handler = "upload" /\ last.src = s /\ ~last.threw

\* C1: after every upload, by any of the four handlers, the text persisted
\* under the query key has no row equal to the file's header line, and for
\* acct and req it is the whole text after the first line (trimmed), so no
\* data row was removed in the header's place.
C1_HeaderRemovedOnce ==
    \A s \in Sources :
        JustUploaded(s) =>
            LET q == store[queryFileName[s]]
            IN  /\ \A i \in 1..RowCount(q) : Rows(q)[i] # HeaderLine(file[s])
                /\ IsLinkSource(s) => q = trim(join(DataLines(file[s]), NL))

\* the cells of line that the claims call excluded: the sentinel as the file
\* writes it, between quote marks, or a cell that is blank after trimming
ClaimExcluded(cell) == cell = Quoted(AwaitingDispatch) \/ trim(cell) = EmptyText

\* the data lines of a po file whose 'PO ID' cell is not excluded
ClaimKept(f) ==
    LET cells == splitCells(f)
        col == indexOf(cells[1], PoIdHeader)
    IN  SelectSeq(Tail(cells), LAMBDA line : ~ClaimExcluded(at(line, col)))

\* C2: after a po or poInfo upload, no persisted row comes from a data line
\* whose 'PO ID' cell is the quoted sentinel or blank: there are at most as
\* many persisted rows as data lines that are not excluded.
C2_SentinelRowsExcluded ==
    \A s \in {"po", "poInfo"} :
        JustUploaded(s) =>
            Len(NonBlankRows(store[queryFileName[s]])) <= Len(ClaimKept(file[s]))

Unquote(cell) == SelectSeq(cell, LAMBDA c : c # "\"")

\* the rows 'reqId,poId' of the data lines the handler's filter retains
RetainedRows(f) ==
    LET cells == splitCells(f)
        reqIdCol == indexOf(cells[1], ReqIdHeader)
        poIdCol == indexOf(cells[1], PoIdHeader)
        kept == SelectSeq(Tail(cells), LAMBDA line : keepLine(line, poIdCol))
    IN  [i \in 1..Len(kept) |->
            Line(Unquote(trim(at(kept[i], reqIdCol))), Unquote(trim(at(kept[i], poIdCol))))]

\* C3: after a po or poInfo upload, the persisted text is exactly the rows
\* 'reqId,poId' of the retained data lines, in file order, without quote
\* marks, and has no other row (no empty row before, between or after).
C3_ExactlyProjectedRows ==
    \A s \in {"po", "poInfo"} :
        JustUploaded(s) => Rows(store[queryFileName[s]]) = RetainedRows(file[s])

\* a step in which inputData of source s popped a row
InputDataStep(s) == last'.handler = "inputData" /\ last'.src = s /\ ~last'.threw

\* C4 as stated: every inputData on a non-empty queue reduces the number of
\* rows of the persisted queue by exactly one.
C4_ExactlyOneRow ==
    [][\A s \in Sources :
        InputDataStep(s) =>
            RowCount(store'[queryFileName[s]]) = RowCount(store[queryFileName[s]]) - 1]_vars

\* C4 amended: every inputData on a non-blank queue strictly reduces the
\* number of rows; it removes the first row and, by trimming what is left,
\* the blank rows at either end of the rest, so at most one non-blank row
\* leaves the queue, and exactly one row leaves a queue without blank rows.
C4_PopsFirstRowAndBlanks ==
    [][\A s \in Sources :
        InputDataStep(s) =>
            LET q == store[queryFileName[s]]
                r == store'[queryFileName[s]]
            IN  /\ RowCount(r) < RowCount(q)
                /\ Len(NonBlankRows(r)) = IF IsBlank(Head(Rows(q)))
                                          THEN Len(NonBlankRows(q))
                                          ELSE Len(NonBlankRows(q)) - 1
                /\ (\A i \in 1..RowCount(q) : ~IsBlank(Rows(q)[i]))
                        => RowCount(r) = RowCount(q) - 1]_vars

\* inputData has popped a,b off the acct queue a,b / blank / c and the blank
\* row left with it
C4_Witness ==
    /\ last.handler = "inputData" /\ last.src = "acct" /\ ~last.threw
    /\ removeHeader(file["acct"]) = <<"a", ",", "b", "\n", "\n", "c">>
    /\ queries["acct"] = << <<<<"a">>, <<"b">>>> >>
    /\ store["acctFile"] = <<"c">>

\* the header line and the data rows of the texts processResult() returns
PageHeader == <<"H">>

HeaderCount(acc) == Len(SelectSeq(Rows(acc), LAMBDA row : row = PageHeader))

RECURSIVE AllDataRows(_)
AllDataRows(ps) ==
    IF ps = <<>> THEN <<>>
    ELSE SelectSeq(DataLines(Head(ps)), LAMBDA row : ~IsBlank(row)) \o AllDataRows(Tail(ps))

\* C5: whenever the result accumulator of a source holds anything, it holds
\* the header row exactly once, whatever texts processResult() returned.
C5_HeaderExactlyOnce ==
    \A s \in Sources :
        LET acc == store[resultFileName[s]]
        IN  (acc # Null /\ ~IsBlank(acc)) => HeaderCount(acc) = 1

\* C6: the text downloaded when the queue has become empty is the header
\* followed by the data rows of every text scraped since the upload, in
\* scrape order (blank lines aside).
C6_DownloadIsConcatenation ==
    \A s \in Sources :
        \A i \in 1..Len(downloads[s]) :
            NonBlankRows(downloads[s][i]) = <<PageHeader>> \o AllDataRows(pages[s])

\* a step in which readResult of source s found the persisted queue blank
TerminalStep(s) ==
    /\ last'.handler = "readResult" /\ last'.src = s /\ ~last'.threw
    /\ IsBlank(store[queryFileName[s]])

\* the three keys of source s
KeysOf(s) == {queryFileName[s], resultFileName[s], "autoclick"}

IsPrefix(a, b) == Len(a) <= Len(b) /\ SubSeq(b, 1, Len(a)) = a

\* C7: a readResult step that finds the queue blank downloads the
\* accumulator (the text read begins with what was accumulated before the
\* step) and then deletes the query key, the result key and 'autoclick', the
\* download preceding every deletion; and no key is deleted in any other
\* step, so never while the queue of the running script holds a row.
C7_DownloadThenClean ==
    [][/\ \A s \in Sources :
            TerminalStep(s) =>
                /\ \A k \in KeysOf(s) :
                      /\ store'[k] = Null
                      /\ Did(last'.log, <<"del", k>>)
                      /\ Did(last'.log, <<"download">>)
                      /\ Pos(last'.log, <<"download">>) < Pos(last'.log, <<"del", k>>)
                /\ downloads'[s] # downloads[s]
                /\ downloads'[s][Len(downloads'[s])] # Null
                /\ IsPrefix(store[resultFileName[s]], downloads'[s][Len(downloads'[s])])
       /\ \A k \in Keys :
            (store[k] # Null /\ store'[k] = Null) =>
                \E s \in Sources : TerminalStep(s) /\ k \in KeysOf(s)]_vars

\* a readResult has just found the queue blank, downloaded and cleaned
C7_Witness ==
    /\ last.handler = "readResult" /\ ~last.threw
    /\ Did(last.log, <<"download">>)
    /\ Did(last.log, <<"del", "autoclick">>)
    /\ store[queryFileName[last.src]] = Null
    /\ Len(pages[last.src]) >= 1
    /\ downloads[last.src] # <<>>

\* C8: readResult invokes postProcessResult only when the queue is not empty
\* after the append: not in the step that downloads and deletes the keys.
C8_NoReturnWhenDone ==
    (last.handler = "readResult" /\ Did(last.log, <<"download">>))
        => ~Did(last.log, <<"postProcessResult">>)

\* the text an upload of file f by source s persists under the query key
PersistedByUpload(s, f) ==
    IF IsLinkSource(s) THEN removeHeader(f) ELSE poProject(f).newText

\* the query rows an upload of file f by source s persists
QueryRows(s, f) == NonBlankRows(PersistedByUpload(s, f))

\* the result was downloaded and the three keys of source s are deleted
Terminal(s) == downloads[s] # <<>> /\ \A k \in KeysOf(s) : store[k] = Null

\* C9: a single upload that persists n >= 1 query rows, followed only by form
\* submissions and returns to the input page, goes through inputData and
\* readResult alternately and is in the terminal state after exactly n of
\* each.
C9_TerminalAfterNRounds ==
    \A s \in Sources :
        (uploads = 1 /\ navs = 0 /\ file[s] # Null /\ Len(QueryRows(s, file[s])) >= 1) =>
            LET n == Len(QueryRows(s, file[s]))
            IN  /\ Len(queries[s]) - Len(pages[s]) \in {0, 1}
                /\ Len(queries[s]) <= n
                /\ Terminal(s) => (Len(queries[s]) = n /\ Len(pages[s]) = n)

\* the comma-split fields of the query rows an upload persists
ExpectedQueries(s, f) ==
    LET rows == QueryRows(s, f)
    IN  [i \in 1..Len(rows) |-> split(rows[i], ",")]

\* C10: the k-th array handed to processQuery is the comma-split k-th data
\* row that survived the upload, for all four sources, and no array of an
\* empty row is ever handed over.
C10_QueriesInFileOrder ==
    \A s \in Sources :
        file[s] # Null =>
            /\ IsPrefix(queries[s], ExpectedQueries(s, file[s]))
            /\ \A i \in 1..Len(queries[s]) : queries[s][i] # <<EmptyText>>

\* the rows handed to processQuery, as the text of the row each came from
RECURSIVE SubmittedRows(_)
SubmittedRows(qs) ==
    IF qs = <<>> THEN <<>> ELSE <<join(Head(qs), <<",">>)>> \o SubmittedRows(Tail(qs))

NonBlank(rows) == SelectSeq(rows, LAMBDA row : ~IsBlank(row))

\* C11: inputData writes the shortened queue back before it calls
\* processQuery, so a row that was handed to processQuery is no longer in the
\* persisted queue: at every moment, reloads of the input page included, the
\* query rows of the upload are the rows handed over so far followed by the
\* rows still queued, each exactly once.
C11_WrittenBackBeforeQuery ==
    /\ (last.handler = "inputData" /\ ~last.threw) =>
            last.log = << <<"set", queryFileName[last.src]>>, <<"processQuery">> >>
    /\ \A s \in Sources :
            (file[s] # Null /\ store[queryFileName[s]] # Null) =>
                NonBlank(SubmittedRows(queries[s])) \o NonBlankRows(store[queryFileName[s]])
                    = QueryRows(s, file[s])

\* the input page was reloaded before the form was submitted: inputData ran
\* twice with no result page in between and handed over two different rows
C11_Witness ==
    /\ last.handler = "inputData" /\ ~last.threw /\ last.src = "acct"
    /\ pages["acct"] = <<>>
    /\ queries["acct"] = << <<<<"a">>, <<"b">>>>, <<<<"c">>>> >>
    /\ store["acctFile"] = EmptyText

\* a step in which the content script of the page in the tab ran
PageLoadStep == tab.phase = "loading" /\ tab'.phase # "loading"

\* a page load that left the store and the record of the run as they were
NothingDone ==
    /\ store' = store
    /\ queries' = queries
    /\ pages' = pages
    /\ downloads' = downloads
    /\ last'.log = <<>>

\* C12: a load of a page whose path is neither the input path nor the
\* result path ends in an error and does nothing: the store is unchanged, no
\* row is popped, nothing is appended, downloaded or deleted, and no further
\* step of the automation is pending.
C12_UnknownPageHalts ==
    [][(PageLoadStep /\ tab.page = "other") =>
            (last'.threw /\ NothingDone /\ tab'.phase = "idle")]_vars

\* checkURL has thrown on an unknown page while the queue holds rows
C12_Witness ==
    /\ last.handler = "checkURL" /\ last.threw
    /\ tab.page = "other" /\ tab.phase = "idle"
    /\ store[queryFileName[tab.src]] # Null
    /\ ~IsBlank(store[queryFileName[tab.src]])

\* the store without the result key of source s
WithoutResult(s) == [store EXCEPT ![resultFileName[s]] = Null]

\* C13: each of the three error conditions halts the script of the page with
\* the store unchanged, no form filled and no download offered: the query
\* key absent on any page, the queue present but blank on the input page,
\* and the result key absent on the result page.  Query key and result key
\* are written and deleted by the same handlers, so the third condition is
\* put to the script by removing the result key from the store it runs on.
C13_ErrorsChangeNothing ==
    [][/\ (PageLoadStep /\ store[queryFileName[tab.src]] = Null) =>
                (last'.threw /\ last'.handler = "constructor" /\ NothingDone)
       /\ (/\ PageLoadStep
           /\ tab.page = "input"
           /\ store[queryFileName[tab.src]] # Null
           /\ IsBlank(store[queryFileName[tab.src]])) =>
                (last'.threw /\ last'.handler = "inputData" /\ NothingDone)
       /\ \A s \in Sources, newPage \in PageResults :
            store[queryFileName[s]] # Null =>
                LET h == script(EnterScript(WithoutResult(s)), s, "result", newPage)
                IN  /\ h.threw
                    /\ h.store = WithoutResult(s)
                    /\ h.log = <<>>
                    /\ h.queries = <<>>
                    /\ h.downloads = <<>>]_vars

\* inputData has thrown on a queue that is present but blank, and the keys
\* are as the upload left them
C13_Witness ==
    /\ last.handler = "inputData" /\ last.threw /\ last.log = <<>>
    /\ tab.page = "input" /\ tab.phase = "idle"
    /\ store[queryFileName[tab.src]] = EmptyText
    /\ store[resultFileName[tab.src]] = EmptyText
    /\ store["autoclick"] # Null

\* the effects of an upload handler of source s, in the order of the code
UploadLog(s) ==
    << <<"set", queryFileName[s]>>, <<"set", resultFileName[s]>>,
       <<"set", "autoclick">>, <<"setUrl">> >>

\* what a completed upload of source s leaves behind
UploadPersisted(s) ==
    /\ file[s] # Null
    /\ store[queryFileName[s]] = PersistedByUpload(s, file[s])
    /\ store[resultFileName[s]] = EmptyText
    /\ store["autoclick"] \in {Bool(TRUE), Bool(FALSE)}
    /\ last.log = UploadLog(s)
    /\ tab = Open(s, "input")

\* C14: every upload, whatever the store held before it, leaves the query
\* key of its source set to the transformed text of the file, the result key
\* set to the empty text and autoclick set to the checkbox value, the three
\* writes made before the tab is sent to the start URL.
C14_UploadResetsKeys ==
    last.handler = "upload" => (~last.threw /\ UploadPersisted(last.src))

\* C15: once the terminal step of a source has offered the download and
\* deleted the keys, every page load of that source, on any page, ends in
\* the constructor and does nothing until the source is uploaded again: no
\* key is created, nothing is popped, appended or downloaded; so the result
\* is downloaded at most once per upload.
C15_NothingAfterTerminal ==
    [][/\ (PageLoadStep /\ downloads[tab.src] # <<>>) =>
                (last'.handler = "constructor" /\ last'.threw /\ NothingDone)
       /\ \A s \in Sources : Len(downloads'[s]) <= 1]_vars

\* a page of a source whose result was downloaded has loaded, and the run of
\* that source had popped and scraped at least once
C15_Witness ==
    /\ last.handler = "constructor" /\ last.threw
    /\ downloads[last.src] # <<>>
    /\ queries[last.src] # <<>>
    /\ pages[last.src] # <<>>
    /\ \A k \in KeysOf(last.src) : store[k] = Null

\* the script of the input page of source s has halted with an error: no
\* form was filled, so no page load follows
Halted(s) ==
    /\ tab.src = s /\ tab.page = "input" /\ tab.phase = "idle"
    /\ last.handler = "inputData" /\ last.src = s /\ last.threw

\* the queue of source s is present but blank
BlankQueue(s) == store[queryFileName[s]] # Null /\ IsBlank(store[queryFileName[s]])

\* C16: the run an upload starts goes on to the terminal state in which the
\* keys of the source are deleted, an upload of zero query rows included;
\* it never comes to a halt on the input page with the queue of the source
\* present but blank and the keys still in the store.
C16_RunReachesTerminal ==
    \A s \in Sources : ~(Halted(s) /\ BlankQueue(s))

\* a page load of source s leaves the query key and the result key of every
\* other source as they were
OtherSourcesUntouched(s) ==
    \A t \in Sources \ {s} :
        /\ store'[queryFileName[t]] = store[queryFileName[t]]
        /\ store'[resultFileName[t]] = store[resultFileName[t]]

\* some source has rows left in its queue
SomeQueueNonEmpty == \E t \in Sources : store[queryFileName[t]] # Null /\ ~BlankQueue(t)

\* C17: with the runs of two sources interleaved, a step or the terminal
\* cleanup of one source never changes the query key or the result key of
\* the other, and while some source has rows left in its queue only an
\* upload changes the persisted autoclick flag.
C17_SourcesIndependent ==
    [][/\ PageLoadStep => OtherSourcesUntouched(tab.src)
       /\ (uploads' = uploads /\ SomeQueueNonEmpty) =>
                store'["autoclick"] = store["autoclick"]]_vars

====
